CONSTANTS
  Symbols <- MCSymbols
  Upper <- MCUpper
  Empty = ""
  Entries <- MCEntriesWithDuplicate
  Docs <- MCDuplicateDocs
  CMCDocs = {}
  Nodes = {n1, n2}
  CMCModes = {FALSE}
SPECIFICATION Spec
INVARIANTS ParsesAgree
