--------------------------- MODULE MCResearchRun ---------------------------
(***************************************************************************)
(* Small instances for TLC of ResearchRun, and of what becomes of a signal  *)
(* that it stores: SignalJourney and PaperBook.  The three share nothing    *)
(* but the signals, and each behaviour is one of one of them.               *)
(***************************************************************************)
EXTENDS ResearchRun, SignalJourney, PaperBook

VARIABLE part  \* the component that moves

MCInit ==
  /\ part \in {"research", "journey", "paper"}
  /\ Init /\ JourneyInit /\ PaperInit
  /\ part # "research" => checked /\ clock = LastTime
  /\ part # "journey" => /\ signal = [direction |-> "BUY", event |-> 0]
                         /\ barriers = CHOOSE b \in Barriers : TRUE

MCNext ==
  \/ /\ part = "research" /\ Next
     /\ UNCHANGED <<journeyVars, paperVars, part>>
  \/ /\ part = "journey" /\ JourneyNext
     /\ UNCHANGED <<vars, paperVars, part>>
  \/ /\ part = "paper" /\ PaperNext
     /\ UNCHANGED <<vars, journeyVars, part>>

MCSpec == MCInit /\ [][MCNext]_<<vars, journeyVars, paperVars, part>>

-----------------------------------------------------------------------------
(* ResearchRun *)

MCNameOf == [BaselineRules |-> "baseline", Momentum |-> "momentum",
             RallyFade |-> "rally", VolumePullback |-> "pullback"]

\* Each class has an identity of its own by default.
MCDefaults == [c \in Class |->
  [version |-> "v1", code |-> "c1", hash |-> <<"literal", MCNameOf[c]>>]]

\* A volume ratio that is easier to please, as a float; the same as a text, with
\* a horizon that is cut off to the default; nothing; a field that is unknown to
\* the baseline rules; a word.
MCTuned == [breakout_volume_ratio |-> Value("float", 1200)]
MCWritten == [breakout_volume_ratio |-> [Value("float", 1200) EXCEPT !.type = "str"],
              horizon_seconds |-> Value("float", 900400)]
MCFaster == [return_threshold |-> Value("float", 2)]
MCWord == [breakout_volume_ratio |-> Value("str", 1200)]
MCPayload == {MCTuned, MCWritten, <<>>, MCFaster, MCWord}

Registering(r, c, p, v) ==
  [call |-> "register", registry |-> r, class |-> c, params |-> p, version |-> v,
   code |-> NoVersion]

\* Plain, with a version but no parameters, with parameters, by another registry,
\* with parameters that the class refuses, and frozen by hand.
MCRequests ==
  {Registering("r1", "BaselineRules", p, "v2") : p \in {NoParams, MCWritten, MCFaster, MCWord}}
  \cup {Registering("r1", "Momentum", p, NoVersion) : p \in {NoParams, MCTuned, MCFaster}}
  \cup {Registering("r2", "BaselineRules", MCTuned, "v2"),
        Registering("r2", "BaselineRules", <<>>, NoVersion),
        Registering("r2", "VolumePullback", NoParams, NoVersion),
        [call |-> "freeze", name |-> "baseline", identity |-> MCDefaults["BaselineRules"]]}

From(r, n) == [from |-> "registry", registry |-> r, name |-> n]
New(c) == [from |-> "class", class |-> c]

Composer(sources, policy, weights) ==
  [sources |-> sources, policy |-> policy, weights |-> weights]

\* Two strategies under every policy, with weights that grow and with a first
\* weight of zero, which only SCORE_WEIGHTED refuses; three of which the registry has
\* two; three made by hand.
MCComposers ==
  LET two == <<From("r1", "momentum"), From("r1", "baseline")>> IN
  {Composer(two, "PRIORITY_MAX_CONFIDENCE", <<>>), Composer(two, "UNANIMOUS", <<0, 1>>)}
  \cup {Composer(two, "SCORE_WEIGHTED", w) : w \in {<<1, 2>>, <<0, 1>>}}
  \cup {Composer(<<From("r2", "pullback"), From("r2", "baseline"), New("Momentum")>>,
                 "SCORE_WEIGHTED", <<1, 2, 3>>),
        Composer(<<New("Momentum"), New("BaselineRules"), New("RallyFade")>>,
                 "PRIORITY_MAX_CONFIDENCE", <<>>)}

Bar(t, c, v, s, r) == [time |-> t, close |-> c, volume |-> v, slide |-> s, rally |-> r]

MCFirst == Bar(0, 1000, 100, 0, 0)
MCSecond == Bar(1, 1000, 100, 0, 0)

\* A rise with volume, a spike without one, a fall, a spike that fades.
MCThird == {Bar(2, 1010, 300, 0, 0), Bar(2, 1030, NoVolume, 0, 30),
            Bar(2, 980, 100, -30, 0), Bar(2, 1030, 20, -30, 25)}
MCFourth == Bar(3, 960, 100, 0, 0)

\* In order, out of order, and with a bar that comes twice.
MCLists ==
  {<<MCFirst, MCSecond, b, MCFourth>> : b \in MCThird}
  \cup {<<b, MCSecond, MCFirst>> : b \in {x \in MCThird : x.close = 1010}}
  \cup {<<MCFirst, MCSecond, b, b>> : b \in {x \in MCThird : x.rally = 30}}
-----------------------------------------------------------------------------
(* SignalJourney and PaperBook *)

\* Quiet, up to the profit barrier, down to the loss barrier, both, a gap up
\* past the barrier, and a halt, around an entry at 100.
MCBars ==
  {[open |-> 100, high |-> p[1], low |-> p[2], close |-> p[3], status |-> "TRADING"] :
     p \in {<<101, 99, 100>>, <<103, 100, 102>>, <<100, 97, 98>>, <<103, 97, 100>>}}
  \cup {[open |-> 103, high |-> 104, low |-> 102, close |-> 103, status |-> "TRADING"],
        [open |-> 100, high |-> 100, low |-> 100, close |-> 100, status |-> "HALTED"]}

MCBarrier(profit, loss, limit, policy) ==
  [profit |-> profit, loss |-> loss, limit |-> limit, policy |-> policy]

MCBarriers ==
  {MCBarrier(2, -2, Nothing, "AMBIGUOUS"), MCBarrier(2, -2, 2, "CONSERVATIVE"),
   MCBarrier(Nothing, -2, 1, "AMBIGUOUS")}

MCActionOf == [a |-> "BUY", b |-> "BUY", c |-> "REDUCE_LONG", d |-> "RISK_AVOID",
               e |-> "CLEAR_LONG", f |-> "HOLD"]
============================================================================
