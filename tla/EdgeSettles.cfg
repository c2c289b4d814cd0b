CONSTANTS
    owner = owner
    guest = guest
    ownerHandle = ownerHandle
    guestHandle = guestHandle
    Nobody = Nobody
    NoHandle = NoHandle
    NoNote = NoNote
    MaxNotes = 1
    Agents = {a1, a2}
    Principals = {guest, owner}
    Handles = {guestHandle}
    DefaultTarget = ownerHandle
    ValidTargets = {ownerHandle}
    AutoApproveKinds = {"brief", "calendar-change", "typing"}
    Offers <- MCOffers
    MaxCrashes = 2
SPECIFICATION Spec
PROPERTY
    EveryRowSettles
