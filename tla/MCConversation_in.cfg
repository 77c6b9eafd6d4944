\* One talk that is let in, with every failure.
SPECIFICATION FairTalkSpec
CONSTANTS
  t1 = t1
  t2 = t2
  NoTalk = NoTalk
  Talks = {t1}
  Outgoing = {}
  Discoverable = TRUE
  MayFail = TRUE
PROPERTIES PeerGoneEndsTalk CallersAreAnswered QuitWaitsForPeerOnly
