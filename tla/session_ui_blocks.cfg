\* One job, and calls of the UI thread under it: a server that does not answer.
CONSTANTS
  None = None
  MaxPosts = 1
  MaxStatements = 1
SPECIFICATION FairSpec
PROPERTY UiNeverBlocks
