SPECIFICATION LiveSpec
CONSTANTS
    Callers = {"keymap", "work queue", "listener"}
    Chars <- MCChars
    Texts <- MCTexts
    Keycode <- MCKeycode
    NoKey = NoKey
INVARIANTS OneOwner KeyWillBeReleased
PROPERTIES TypesTheText BecomesIdle
