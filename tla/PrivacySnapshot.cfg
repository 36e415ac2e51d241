SPECIFICATION PrivacySpec
CONSTANTS Tokens = {1}
Epochs = {0,1}
MaxUpdates = 3
MaxReplugs = 0
MaxErrors = 0
MaxCrashes = 0
INVARIANT PanelsComeBack
CHECK_DEADLOCK FALSE
