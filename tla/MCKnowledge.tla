------------------------------ MODULE MCKnowledge ------------------------------
(***************************************************************************)
(* Two uploads of the same two documents in opposite orders, and a chat    *)
(* whose provider has a fallback.  The documents may speak of the same     *)
(* entity in two senses.                                                   *)
(* A rumour is of no type the ontology knows.  The documents may be known  *)
(* already, with or without their chunks and an extraction.                *)
(***************************************************************************)
EXTENDS Knowledge, TLC

MCUploads == {"u1", "u2"}
MCEarlier == {"nothing", "documents", "chunks", "extraction"}
MCOthers == {"chat"}
MCCallers == MCUploads \cup MCOthers
MCChain == [c \in MCCallers |-> IF c = "chat" THEN <<"chat", "main">> ELSE <<"main">>]
MCKeys == ("chat" :> 3) @@ ("main" :> 1)
MCDocsOf == ("u1" :> <<1, 2>>) @@ ("u2" :> <<2, 1>>)
MCChunkCount == <<1, 1>>

Says(mentions, relations) == [mentions |-> mentions, relations |-> relations]
MCOntology == {"a", "b"}
MCFound ==
    (<<1, 1>> :> {Says({<<"a", 1>>, <<"b", 1>>}, {<<"a", "b">>, <<"rumour", "b">>})})
    @@ (<<2, 1>> :> {Says({<<"a", 2>>, <<"rumour", 1>>}, {<<"a", "a">>})})

=============================================================================
