\* Two tasks fetch and the lower one spins on a full mailbox; tcpip_thread
\* outranks both, tries to post, and frees; the clock runs.
SPECIFICATION LiveSpec
CONSTANTS
    Tasks <- All
    Fetchers <- TwoAndThree
    Posters <- Three
    TryPosters <- One
    Isr = TRUE
    CanFree = TRUE
    Size = 2
    Timeouts <- ShortWaits
    Word = 3
    Scale = 1
    MaxWait = 1
    MaxPosts = 3
INVARIANTS ExactlyOnce FifoExact NobodyForgotten HonestReply
PROPERTY NobodyStuck
