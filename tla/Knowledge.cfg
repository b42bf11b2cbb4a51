SPECIFICATION Spec
CONSTANTS
  Callers <- MCCallers
  Chain <- MCChain
  Keys <- MCKeys
  MaxRetries = 1
  Uploads <- MCUploads
  DocsOf <- MCDocsOf
  ChunkCount <- MCChunkCount
  Found <- MCFound
  Ontology <- MCOntology
  NoOne = NoOne
  Kept = Kept
  Earlier <- MCEarlier
  Others <- MCOthers
  MaxAborts = 1
  MaxAsks = 2
  Apart = TRUE
INVARIANTS TypeOK GraphsRestOnCache EveryKeyTried
PROPERTY UploadsEnd
CHECK_DEADLOCK FALSE
