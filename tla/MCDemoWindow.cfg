SPECIFICATION FairSpec
CONSTANTS
  CheckErrs <- MCCheckErrs
  Refusals <- MCRefusals
  Deferrals <- MCDeferrals
  StartErrs <- MCStartErrs
  MaxTasks = 2
CHECK_DEADLOCK FALSE
INVARIANTS
  OneTask
  OfferFits
  SeenIsReal
  OutcomeIsHonest
  OfferCanBeMet
PROPERTIES
  ButtonsComeBack
