SPECIFICATION Spec
CONSTANTS
    MaxIntents = 1
    Principals = {owner}
    Sends <- MCSendsAlone
    owner = owner
    partner = partner
    Turns = {t1}
    Tokens = {x}
    LastDay = 0
    MaxProposals = 1
    MaxDispatches = 1
    MaxUpsets = 0
INVARIANT BareVerbResolves
