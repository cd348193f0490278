------------------------------ MODULE MCAgent -------------------------------
EXTENDS Agent
All(lang, words) == [speaks |-> lang, says |-> words]
MCUtterances ==
  {All("en", {"book", "service", "in", "can wait"}), All("fr", {"service", "urgent"}),
   All("none", {"out", "message"}), All("none", {"yes", "in"}), All("none", {"second", "no"}),
   All("en", {"emergency"})}
=============================================================================
