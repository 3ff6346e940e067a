\* Two threads that read and write; rings of two slots, positions of two bits.
CONSTANTS
    Threads = {t1, t2}
    Writers = {t1}
    Chars = {a, b}
    None = None
    RBUFSZ = 2
    POSMOD = 4
    Arrivals = {a}
    Sizes = {2}
    Messages <- MCMessages
    t1 = t1
    t2 = t2
    a = a
    b = b
SPECIFICATION FairSpec
INVARIANTS
    NothingForgotten
PROPERTIES
    Queues
    WaitersServed
    SentOrClosed
