SPECIFICATION RedisSpec
CONSTANTS
    DecodeReply <- Decode
    EncodeReplies <- EncodeAll
    Conversations <- MCConversations
    LeftBytes <- MCLeft
    MaxCommands = 2
CHECK_DEADLOCK FALSE
INVARIANTS
    PartIncomplete
