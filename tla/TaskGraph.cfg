SPECIFICATION Spec
CONSTANT Inputs <- MCInputs
INVARIANTS LoopsRefused SceneDataRight NoSceneDeadlock
PROPERTY Prepared
CHECK_DEADLOCK FALSE
