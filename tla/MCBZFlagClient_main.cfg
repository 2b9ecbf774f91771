\* Two connections (one reconnect), a server that may send a Hello of
\* another version, push one message of any kind per connection and reject
\* MsgEnter, and an application that connects, disconnects, exits and runs
\* the loop in any order, five calls in all.
CONSTANTS
  s1 = s1  s2 = s2  s3 = s3
  Socks = {s1, s2}
  NoSock = NoSock
  MaxMsgs = 1
  MaxCalls = 5
  BadHello = TRUE
SPECIFICATION Spec
CHECK_DEADLOCK FALSE
INVARIANT TypeOK
INVARIANT ConnectedMeansHandshaken
PROPERTY SessionRefined
