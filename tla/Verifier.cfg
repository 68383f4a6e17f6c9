SPECIFICATION Spec
CONSTANTS
    Hash <- MCHash
    Zones <- MCZones
    QNames <- MCQNames
    QTypes <- MCQTypes
    KeyAnswers <- MCKeyAnswers
    DelegationKeys <- MCDelegationKeys
    ZoneKey <- MCZoneKey
    Flawed <- MCFlawed
    Flaws <- MCFlaws
    None = None
INVARIANTS ProofsSound TrueDenialAccepted RRsetsSigned
CHECK_DEADLOCK FALSE
