CONSTANTS
  IdSeq <- MCIdSeq
  APIConfigs <- MCAPIConfigs
  Mids = {0, 3250, 10000}
SPECIFICATION Spec
INVARIANTS TypeOK OutcomesMatchSpec
