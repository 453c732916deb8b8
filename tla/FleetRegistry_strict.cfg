CONSTANTS
    a = a
    b = b
    t1 = t1
    t2 = t2
    minimal = minimal
    site = site
    p1 = p1
    p2 = p2
    c1 = c1
    c2 = c2
    desktop = desktop
    None = None
    Web = Web
    Ids = {a}
    Targets = {t1, t2}
    Panels = {p1, p2}
    Profiles <- MCProfiles
    WebProfiles <- MCWebProfiles
    Clients = {c1, c2}
    Processes = {desktop}
    ProcessOf <- OneProcess
    Overlap = TRUE
    Faults = FALSE
    MaxAdds = 2
    Requests <- PolicyRequests

SPECIFICATION Spec

PROPERTY
    StrictForGood
