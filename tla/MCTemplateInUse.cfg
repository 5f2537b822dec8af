SPECIFICATION Spec
CONSTANTS
    Requests = {r1, r2}
    Redeemers = {p1, p2}
    Hwids = {h1, h2}
    Spellings = {u}
    Sids = {s1, s2}
    Clients = {c}
    RuleIds = {1}
    Templates = {t}
    RuleInputs <- MCRuleInputs
    TemplateInputs <- MCTemplateInputs
    Limits = {0, 1}
    MaxEdits = 1
    Nothing = Nothing
    Offers <- MCOffers
    r1 = r1
    h1 = h1
    h2 = h2
    s1 = s1
    c = c
    u = u
PROPERTY TemplatesInUseStay
CHECK_DEADLOCK FALSE
SYMMETRY Symmetry
