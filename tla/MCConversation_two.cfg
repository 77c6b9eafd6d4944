\* Two talks, one made by address and one let in, with every failure.
SPECIFICATION TalkSpec
CONSTANTS
  t1 = t1
  t2 = t2
  NoTalk = NoTalk
  Talks = {t1, t2}
  Outgoing = {t1}
  Discoverable = FALSE
  MayFail = TRUE
INVARIANTS TalkTypeOK NothingLeaks FlagLostToOthers
