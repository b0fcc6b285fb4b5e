SPECIFICATION IntakeSpec
CONSTANTS
    l1 = l1  d1 = d1  d2 = d2
    r1 = r1  r2 = r2
    Listings = {l1}
    DemoTxns <- MCDemoTxns
    Named = {l1}
    Terms = {"A", "B", "late"}
    BadTerms = {"late"}
    Reqs = {r1, r2}
    None = None
    PageSize = 1
    MaxFolders = 2
    Regimes <- MCRegimes
SYMMETRY MCSymmetry
INVARIANTS
    OpenAnswersHonestly
    DocumentsAreBacked
    UploadsAreListed
CHECK_DEADLOCK FALSE
