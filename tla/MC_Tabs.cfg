\* Two languages; two stories and one choice, or one story and two choices.  Two iterations of the
\* debug page, with a failed launch and two disturbances.
SPECIFICATION MCFairSpec
CONSTANTS
    Langs = {en, ar}
    English = en
    RtlLangs = {ar}
    NoLang = NoLang
    SavedCookies = {ar, NoLang}
    SlideInterval = 3
    MaxLateness = 1
    MaxStories = 2
    MaxChoices = 2
    Iterations = 2
    MaxFaults = 1
    MaxDisturbances = 2
CHECK_DEADLOCK FALSE
INVARIANTS
    TypesOK
    ChainIsSound
    SlideIsNotLate
    LanguageIsSound
PROPERTIES
    PagesMoveOn
