SPECIFICATION PartsSpec
CONSTANTS
    Key = {"g", "j", "5", "left"}
    Digits = {"5"}
    Accelerators = {"left"}
    Bindings <- TheBindings
    Owner = {"tab1", "tab2", "prompt"}
    ContextOf <- TheContexts
    Suppressed = {"page.prompt", "page.first", "prompt.last"}
    Prompt = "page.prompt"
    Disabled = "disabled"
    MaxSeen = 3
CHECK_DEADLOCK FALSE
CONSTRAINT FewAtOnce
INVARIANTS
    CreditCoversBuffer
    OutcomesAgree
    KeysAreTrue
PROPERTIES
    ServicesEnd
