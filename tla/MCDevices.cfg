SPECIFICATION Spec
CONSTANTS
    KBD_BUF_SIZE = 3
    Plain = {}
    Letters = {"a"}
    Readers = {r1, r2}
    MaxWant = 2
    ScreenWidth = 6
    WindowWidth = 4
    CUR_W = 2
    MouseBytes = {0, 9, 254}
    Glyphs = {" ", "a"}
    MaxCount = 1
    NUM_RX_DESC = 3
    NUM_TX_DESC = 5
    Tries = 2
    Packets = {"arp_reply", "echo_reply", "dns_a", "dns_error", "tcp"}
SYMMETRY ReaderSymmetry
INVARIANTS
    CursorClean
    PictureOK
    HandlesLive
    TxInOrder
    NoReplyMissed
PROPERTIES
    KeysDelivered
    RxImplements
\* net_test ends
CHECK_DEADLOCK FALSE
