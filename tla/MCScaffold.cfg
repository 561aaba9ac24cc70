\* Two kills, so that a run which follows a killed one is killed in turn, and
\* two edits, before, between and during the runs.
SPECIFICATION Spec
CONSTANTS
  MaxKills = 2
  MaxEdits = 2
INVARIANTS
  CompletedRunRepairs
  OneFilePerKill
PROPERTY
  KeepsWhatItShould
