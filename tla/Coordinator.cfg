\* Every plan of up to three tasks over two ids.
SPECIFICATION Spec
CONSTANTS
  ollama = ollama
  openai = openai
  anthropic = anthropic
  Providers <- MCProviders
  Defaults <- MCDefaults
  Ids = {t1, t2}
  NoId = NoId
  Malformed = Malformed
  MaxTasks = 3
SYMMETRY Symmetry
CHECK_DEADLOCK FALSE
INVARIANTS TypeOK LLMFailsOnlyWhenAllFail SettledAreSupportable RunsExactlyTheRunnable NoFindingLost
