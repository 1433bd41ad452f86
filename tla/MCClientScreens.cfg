SPECIFICATION Spec
CONSTANTS
    ShortRequests = {"a", "b"}
    ShortPrice = 2
    ShortPoints = 2
    ShortActs = 2
    ShortTrouble = 1
    WaitPlayers = {"p", "q"}
    WaitSlots = {1}
    RangePlayers = {"p"}
    RangeSlots = {1, 2}
    WaitBookings = {1, 2}
    Waves = {1}
    WaitJoins = 2
    WaitTrouble = 1
    PurseBookings = {1, 2}
    PursePoints = 45
    PursePrice = 2
    PurseDiscount = 1
    PursePays = 2
    MoneyPrice = 2
    MoneySaves = 2
    MoneyOthers = 1
    RefundDue = 2
    RefundSubmits = 2
    HoldTries = 2
    HoldHolds = 1
CHECK_DEADLOCK FALSE
INVARIANTS
    TypeOK
    ApprovalsFaithful
    PickerFaithful
    MoneyFaithful
    HoldFaithful
    WizardFaithful
    SettingsFaithful
    AuthFaithful
    BellFaithful
    BookingListsFaithful
    StaffFaithful
    PlayerFaithful
    PremiumFaithful
    
