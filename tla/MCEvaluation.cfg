SPECIFICATION Spec
CONSTANTS
  Samples <- MCSamples
  Outcomes <- MCOutcomes
  MaxRequests = 3
  Modes <- MCModes
  Published <- MCPublished
  Answers <- MCAnswers
  Tasks <- MCTasks
  Surveys <- MCSurveys
  Earlier <- MCEarlier
  Files <- MCFiles
  Policies <- MCPolicies
  Standard <- MCStandard
  NoPolicy = "none"
  Readings = {0, 2}
  Worlds <- MCWorlds
  Commands <- MCCommands
INVARIANTS
  TruthTold
  ResultsTold
  ScenariosTold
CHECK_DEADLOCK FALSE
