---------------------------- MODULE MCUnreadSync ----------------------------
\* UnreadSync with as many things under way at once as MaxUnderWay says: requests to
\* the server, a refresh that is due, the list asked for or answered, counts and a
\* slice.
EXTENDS UnreadSync, FiniteSets

CONSTANT MaxUnderWay

UnderWay ==
  Cardinality(calls) + Cardinality(feeds.list) + Cardinality(feeds.unread)
    + Cardinality(feeds.slice) + Cardinality({x \in {"due", "asked"} : feeds[x]})

FewUnderWay == UnderWay <= MaxUnderWay
=============================================================================
