SPECIFICATION DesktopPartsSpec
CONSTANTS
    Settings <- AppliedSettings
    MaxApplies = 2
    MaxDialogs = 1
    MaxPopups = 1
    Tab = {t1, t2}
    MaxSaves = 2
    Page = {p1, p2}
    Backend = {b1, b2}
    MaxEdits = 2
    Window = {w1, w2}
    Game = {g1, g2}
    Name = {n1, n2}
    Link = {l1, l2}
    NoLink = none
    MaxAdds = 3
    MaxLinks = 1
INVARIANTS SettingsTakeEffect LinkWaitsForWindow PagesAreCurrent
PROPERTIES QuitAsksFirst WritesStayScoped
CHECK_DEADLOCK FALSE
