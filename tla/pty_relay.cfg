CONSTANTS
  MaxTyped = 3
  MaxPrinted = 2
SPECIFICATION FairSpec
INVARIANTS TypeOK OutputIsRelayed EchoShownForAnother PasswordIsNotShown StopKeyIsNotShown
PROPERTY ReturnsAfterSu
