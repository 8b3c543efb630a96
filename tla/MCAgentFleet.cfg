\* Two agents, a channel of three messages and a page of two, and others who
\* write to it: what a handoff terminates, and that all agents end.
SPECIFICATION FairSpec
CONSTANTS
  Agents <- Two
  Readable <- Proper
  Cut <- Long
  PageLimit = 2
  MaxLength = 3
INVARIANTS TypeOK HandoffIsComplete
PROPERTIES AgentsEnd
