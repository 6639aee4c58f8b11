CONSTANTS
    base = base
    nm = nm
    tools = tools
    curl = curl
    git = git
    lab = lab
    cafe = cafe
    guest = guest
    right = right
    other = other
    none = none
    Packages <- MCPackages
    Essential = {base}
    Preinstalled = {base, nm}
    Manager = nm
    Aps = {lab, cafe, guest}
    Words = {right, other}
    Password <- MCPassword
    OpenAp = none
    NoSsid = noSsid
SPECIFICATION NetworkSpec
INVARIANTS ReportsAgree RemovedIsDown
