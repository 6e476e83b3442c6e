SPECIFICATION Spec
CONSTANT Modules <- MCModules
INVARIANTS TypeOK StepsAreModels ModelsAreSteps OneModelPerStep
CHECK_DEADLOCK FALSE
