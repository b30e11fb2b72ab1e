SPECIFICATION FairSpec
CONSTANTS
    Request = {r1, r2, r3}
    First = r1
    Beside = {"create_account_link", "redirect", "update_profile", "upload_avatar"}
    Asks <- AsksOfEach
    Threads = 1
    Connections = 1
    Nobody = Nobody
INVARIANTS
    TypeOK
    NoConnectionAtCache
    CommittedLinksAreAnswered
    SomeoneCanGoOn
PROPERTIES
    EveryRequestEnds
