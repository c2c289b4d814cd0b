CONSTANTS
    owner = owner
    guest = guest
    ownerHandle = ownerHandle
    guestHandle = guestHandle
    Nobody = Nobody
    NoHandle = NoHandle
    NoNote = NoNote
    MaxNotes = 1
    Agents = {a1, a2}
    Principals = {guest, owner}
    Handles = {guestHandle}
    DefaultTarget = ownerHandle
    ValidTargets = {ownerHandle, guestHandle}
    AutoApproveKinds = {"brief", "calendar-change", "typing"}
    Offers <- MCOffers
    MaxCrashes = 1
SPECIFICATION Spec
PROPERTY
    TerminalIsFinal
