SPECIFICATION FairSpec
CONSTANTS
  en = en
  fr = fr
  noloc = noloc
  yeah = yeah
  book = book
  um = um
  Token <- MCToken
  Locale <- MCLocale
  Hesitation <- MCHesitation
  Numeric <- Nowhere
  Incomplete <- Nowhere
  QuestionLed <- Nowhere
  BackchannelDict <- MCBackchannelDict
  QMark = {}
  Runes <- MCRunes
  Delays <- MCDelays
  OnsetFrames = 2
  HangoverFrames = 2
  InitLocale = en
  NoLocale = noloc
  Utterances <- MCUtterances
  Chunks <- MCChunks
  MinBargeChars = 6
  ConfirmWindow = 2
  PlayoutOffset = 1
  LineErrors = TRUE
  ClipFrames = 1
  MaxSilence = 2
  MaxWritten = 2
  MaxBacklog = 2
  MaxResults = 3
INVARIANTS TypeOK PipelineOwned CallerWordsKept CompletedTurnIsWhole HeardWhenFed
CHECK_DEADLOCK FALSE
PROPERTIES DraftAnswered SynthesizedTurnEnds
