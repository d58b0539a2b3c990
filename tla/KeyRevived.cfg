SPECIFICATION Spec
CONSTANTS
    Node = {1, 2}
    Key = {"k1", "k2"}
    Owner = {"ann", "bob"}
    Role = {"Aiya", "Guardian", "Judge", "Citizen"}
    nobody = "nobody"
    Ledger <- MCLedger
    KeyRequest <- MCKeyRequest
    KeyScenes <- MCKeyScenes
    Email = {"mail"}
    Ip = {"ip"}
    Send = {s1, s2}
    AddressOf <- MCAddressOf
    IpOf <- MCIpOf
    none = none
    CODE_TTL = 2
    RESEND_COOLDOWN = 1
    Hour = 2
    MaxSends = 1
    LastTick = 3
    Hub = {1, 2}
    Entry = {"id1", "id2", "old2"}
    Leads <- MCLeads
    Self <- MCSelf
    Client = {"client2"}
    Plugin = {"plugin1", "plugin2"}
    HubOf <- MCHubOf
    DedupId = {"d1", "d2"}
    noId = "no"
    BROADCAST_CAPACITY = 1
    MAX_DEDUP_ENTRIES = 1
    Limit = 2
    ChatScene <- MCChatScene
    Vote = {v1}
    Voter = {c1, c2}
    Choice = {"yes", "no"}
    blank = blank
    MinDuration = 1
    LastInstant = 2
    MaxCasts = 2
    Code = {"web", "new"}
    Listed <- MCListed
    CatalogueRequest <- MCCatalogueRequest
INVARIANT
    RevokedStays
CHECK_DEADLOCK FALSE
