SPECIFICATION Spec
CONSTANTS
    MaxIntents = 2
    Principals = {owner, partner}
    Sends <- MCSends
    owner = owner
    partner = partner
    Turns = {t1, t2}
    Tokens = {x, y}
    LastDay = 1
    MaxProposals = 2
    MaxDispatches = 1
    MaxUpsets = 1
INVARIANTS AtMostOneEvent OutcomesAreHonest RepliesAreHonest DispatchOvershoot
PROPERTIES EffectHasConsent ImplementsOneShotChannel
SYMMETRY Symmetry
