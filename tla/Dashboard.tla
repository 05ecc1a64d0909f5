----------------------------- MODULE Dashboard -----------------------------
(***************************************************************************)
(* The configuration panel of the web page (src/web/app.js): the rows of   *)
(* the filter chain, their parameters, the edits not saved yet, the poll   *)
(* that fills the form and the buttons, against the daemon that keeps the  *)
(* configuration, other clients that write it, and the engine that         *)
(* composes its chain from it.  Requests travel: the answer of a poll      *)
(* shows the daemon as it was, however late it arrives.                    *)
(*                                                                         *)
(* A configuration: filters, the list of tokens (AutoChain when the string *)
(* is empty), order, the rows as saved (<<>> when none), mode and frc, the *)
(* FRC mode and its older switch, amt, how strong each graded stage is,    *)
(* and rest, what the form does not show (the route NMOS wrote).           *)
(***************************************************************************)
EXTENDS Integers, SequencesExt

CONSTANTS Full,       \* the stages the daemon describes, in its order
          Fallback,   \* the stages of the catalog built into the page
          Foreign,    \* configurations other clients write
          MaxPolls,   \* polls under way at once
          MaxActs,    \* edits and presses of a button
          MaxUpsets   \* lost requests, writes, starts and stops of others

Stages   == ToSet(Full)
Required == {"scale"}
Graded   == Stages \ {"frc", "scale"}
AutoChain == <<"auto">>  \* not a list of tokens
Keys     == Graded \cup {"mode", "chain"}

Configs ==
  [filters : Seq(STRING), order : Seq(STRING), mode : Nat, frc : BOOLEAN,
   amt : [Graded -> {0, 1}], rest : {0, 1}]

ASSUME DashboardAssumption ==
  /\ {Full, Fallback, AutoChain} \subseteq Seq(STRING) /\ IsInjective(Full) /\ IsInjective(Fallback)
  /\ (Required \cup (Stages \cap {"frc"})) \subseteq ToSet(Fallback)
  /\ ToSet(Fallback) \subseteq Stages /\ Foreign \subseteq Configs
  /\ {MaxPolls, MaxActs, MaxUpsets} \subseteq Nat

VARIABLES
  config, up,             \* the daemon: its configuration, whether an engine runs
  catalog,                \* the page: CATALOG, <<>> until it is loaded
  order, enabled,         \* the rows, and which of them run
  form,                   \* the other inputs: mode and amt
  edited, dirty,          \* staged edits
  loaded, running,        \* formLoaded; what the page takes the engine for
  lastConfig,             \* <<>> or <<the last configuration polled>>
  fresh,                  \* the form is as filled from lastConfig
  polls,                  \* answers to /api/status under way
  post,                   \* POST /api/config of the Save and of the power button
  power,                  \* the handler of the power button
  stirred,                \* someone else has written since its save was sent
  unsaved,                \* history: keys edited and in no save the daemon has taken
  late,                   \* history: keys edited since the form was read for a save
  acts, upsets
daemon == <<config, up>>
inputs == <<order, enabled, form>>
page   == <<catalog, inputs, edited, dirty, loaded, running, lastConfig, fresh>>
asked  == <<polls, post, power, stirred>>
counts == <<acts, upsets>>
history == <<unsaved, late>>
dashVars == <<daemon, page, asked, counts, history>>

Nothing == <<>>
NoPost  == [pc |-> "idle", body |-> Nothing, ok |-> FALSE]
-----------------------------------------------------------------------------
(* Sequences without some of their members *)

\* Where a position comes in a set of positions, and the k-th of them.
Rank(I, i) == Cardinality({j \in I : j <= i})
Nth(I, k)  == CHOOSE i \in I : Rank(I, i) = k

\* The members of s at the positions I, and those that are in S.
At(s, I)   == [k \in 1 .. Cardinality(I) |-> s[Nth(I, k)]]
Only(s, S) == At(s, {i \in DOMAIN s : s[i] \in S})
-----------------------------------------------------------------------------
(* What the engine makes of a configuration *)

\* SPARK_FRC as the daemon sets it.
Mode(c) == IF c.mode > 0 THEN c.mode ELSE IF c.frc THEN 1 ELSE 0

\* Whether the automatic composition takes stage s.
Takes(c, s) == CASE s = "scale" -> TRUE [] s = "frc" -> Mode(c) > 0 [] OTHER -> c.amt[s] > 0

Tokens(c) == IF c.filters = AutoChain THEN Only(Full, {s \in Stages : Takes(c, s)}) ELSE c.filters

\* The stages a token of c switches on: FRC has no effect without a mode.
Runs(c) == {s \in Stages : s = "frc" => Mode(c) > 0}

\* The stages that take effect, in order: unknown tokens and FRC without a
\* mode are skipped, a missing scaler is appended.
EngineChain(c) ==
  LET made == Only(Tokens(c), Runs(c))
  IN  IF "scale" \in ToSet(made) THEN made ELSE Append(made, "scale")
-----------------------------------------------------------------------------
(* deriveChain, fillForm and readForm *)

\* A sequence without what is unknown and without repetitions.
Known(cat, s) ==
  At(s, {i \in DOMAIN s : s[i] \in ToSet(cat) /\ \A j \in 1 .. i - 1 : s[j] # s[i]})

\* The rows that are on for configuration c, in the order they run.
DeriveChain(cat, c) ==
  IF c.filters = AutoChain THEN Only(Full, {s \in Stages : Takes(c, s)})
  ELSE LET ch == Only(Known(cat, c.filters), Runs(c))
       IN  ch \o Only(cat, Required \ ToSet(ch))

\* The chain laid over the rows that are on, the others left where they are.
Laid(base, chain) ==
  LET on == {i \in DOMAIN base : base[i] \in ToSet(chain)}
  IN  [i \in DOMAIN base |-> IF i \in on THEN chain[Rank(on, i)] ELSE base[i]]
        \o SubSeq(chain, Cardinality(on) + 1, Len(chain))

BugRows(cat, old, c) ==  \* a bug: the saved rows are trusted whatever the chain
  LET saved == Known(cat, c.order)
  IN  saved \o Only(cat, ToSet(cat) \ ToSet(saved))
\* All rows, top to bottom: as saved when that agrees with the chain, else as
\* they are when they express it, else with the chain laid over them.
Rows(cat, old, c) ==
  LET chain == DeriveChain(cat, c)
      saved == Known(cat, c.order)
  IN  IF saved # <<>> /\ Only(saved, ToSet(chain)) = chain
      THEN saved \o Only(cat, ToSet(cat) \ ToSet(saved))
      ELSE IF Only(old, ToSet(chain)) = chain THEN old ELSE Laid(old, chain)

BugFillForm(c) ==  \* a bug: the order of the rows is filled in over an edit
  /\ form' = [mode |-> IF c.mode > 0 /\ "mode" \notin edited THEN c.mode ELSE form.mode,
              amt  |-> [s \in Graded |-> IF s \in edited \/ s \notin ToSet(catalog)
                                         THEN form.amt[s] ELSE c.amt[s]]]
  /\ order' = Rows(catalog, order, c) /\ enabled' = ToSet(DeriveChain(catalog, c))
  /\ loaded' = TRUE
  /\ fresh' = (edited = {})
\* Every input that is not edited takes the value of c; 0 is no choice of the
\* mode's select.
FillForm(c) ==
  /\ form' = [mode |-> IF c.mode > 0 /\ "mode" \notin edited THEN c.mode ELSE form.mode,
              amt  |-> [s \in Graded |-> IF s \in edited \/ s \notin ToSet(catalog)
                                         THEN form.amt[s] ELSE c.amt[s]]]
  /\ IF "chain" \in edited THEN UNCHANGED <<order, enabled>>
     ELSE order' = Rows(catalog, order, c) /\ enabled' = ToSet(DeriveChain(catalog, c))
  /\ loaded' = TRUE
  /\ fresh' = (edited = {})

ChainNow == Only(order, enabled)

\* A list the panel cannot express: it rides through a save untouched.
Lossy(cat, c) ==
  c.filters # AutoChain /\ (~IsInjective(c.filters) \/ ~(ToSet(c.filters) \subseteq ToSet(cat)))

\* Lists like that name FRC only to run it: Body posts the form's mode with
\* them, and that is never 0.
FrcMeant(c)  == Lossy(Full, c) /\ "frc" \in ToSet(c.filters) => Mode(c) > 0
ListsMeanFrc == \A c \in Foreign : FrcMeant(c)

BugBody(c) ==  \* a bug: only the rows that are on are posted as the order
  LET rides == Lossy(catalog, c) /\ "chain" \notin edited
      frc   == "frc" \in enabled
  IN  [c EXCEPT !.filters = IF rides THEN @ ELSE ChainNow,
                !.frc     = IF rides /\ catalog = Full THEN @ ELSE frc,
                !.mode    = IF catalog = Full \/ frc THEN form.mode ELSE 0,
                !.amt     = [s \in Graded |-> IF s \in ToSet(catalog) THEN form.amt[s] ELSE @[s]],
                !.order   = IF catalog = Full THEN ChainNow ELSE @]
\* { ...lastConfig, ...readForm() }: the page with the built-in catalog posts
\* no rows, and no mode while FRC is off.
Body(c) ==
  LET rides == Lossy(catalog, c) /\ "chain" \notin edited
      frc   == "frc" \in enabled
  IN  [c EXCEPT !.filters = IF rides THEN @ ELSE ChainNow,
                !.frc     = IF rides /\ catalog = Full THEN @ ELSE frc,
                !.mode    = IF catalog = Full \/ frc THEN form.mode ELSE 0,
                !.amt     = [s \in Graded |-> IF s \in ToSet(catalog) THEN form.amt[s] ELSE @[s]],
                !.order   = IF catalog = Full THEN order ELSE @]
-----------------------------------------------------------------------------
\* The defaults of a fresh daemon.
DefaultConfig ==
  [filters |-> AutoChain, order |-> <<>>, mode |-> 0, frc |-> FALSE,
   amt |-> [s \in Graded |-> 0], rest |-> 0]

DashInit ==
  /\ config = DefaultConfig /\ up = FALSE
  /\ catalog = <<>> /\ order = <<>> /\ enabled = {}
  /\ form = [mode |-> 1, amt |-> [s \in Graded |-> 0]]
  /\ edited = {} /\ dirty = FALSE /\ loaded = FALSE /\ running = FALSE
  /\ lastConfig = Nothing /\ fresh = FALSE
  /\ polls = {} /\ post = [b \in {"save", "power"} |-> NoPost] /\ power = "idle"
  /\ stirred = FALSE
  /\ unsaved = {} /\ late = [b \in {"save", "power"} |-> {}]
  /\ acts = 0 /\ upsets = 0

\* A doing of the user, and of anyone else.
Act   == acts < MaxActs /\ acts' = acts + 1
Upset == upsets < MaxUpsets /\ upsets' = upsets + 1

-----------------------------------------------------------------------------
(* The page *)

\* loadCatalog and buildFilterPanel: the descriptors come, or the request is
\* lost and the page keeps to its own.
LoadCatalog ==
  /\ catalog = <<>>
  /\ \/ catalog' = Full /\ UNCHANGED upsets
     \/ Upset /\ catalog' = Fallback
  /\ order' = catalog' /\ enabled' = Required
  /\ UNCHANGED <<daemon, form, edited, dirty, loaded, running, lastConfig, fresh, asked,
                 acts, history>>

\* markDirty; the inputs are disabled while the page takes the engine to run.
Edit(k) ==
  /\ catalog # <<>> /\ ~running /\ Act
  /\ edited' = edited \cup {k} /\ dirty' = TRUE /\ fresh' = FALSE
  /\ unsaved' = unsaved \cup {k}
  /\ late' = [b \in {"save", "power"} |->
                IF post[b].pc \in {"sent", "answered"} THEN late[b] \cup {k} ELSE late[b]]
  /\ UNCHANGED <<daemon, catalog, loaded, running, lastConfig, asked, upsets>>

Toggle ==
  /\ Edit("chain")
  /\ \E s \in ToSet(catalog) \ Required :
       enabled' = IF s \in enabled THEN enabled \ {s} ELSE enabled \cup {s}
  /\ UNCHANGED <<order, form>>

MoveFilter ==
  /\ Edit("chain")
  /\ \E i \in 1 .. Len(order) - 1 :
       order' = [order EXCEPT ![i] = order[i + 1], ![i + 1] = order[i]]
  /\ UNCHANGED <<enabled, form>>

SetParam ==
  /\ \/ Edit("mode") /\ \E m \in {1, 2} : form' = [form EXCEPT !.mode = m]
     \/ \E s \in Graded \cap ToSet(catalog) :
          Edit(s) /\ form' = [form EXCEPT !.amt[s] = 1 - @]
  /\ UNCHANGED <<order, enabled>>

\* The daemon answers GET /api/status; the page asks every second.
Poll ==
  /\ Cardinality(polls) < MaxPolls
  /\ polls' = polls \cup {[config |-> config, up |-> up]}
  /\ UNCHANGED <<daemon, page, post, power, stirred, counts, history>>

BugFills(st) == ~loaded  \* a bug: a running engine's configuration is not followed
\* When an answer fills the form.
Fills(st) == ~loaded \/ (st.up /\ ~dirty)

\* The rest of poll().
PollAnswered ==
  \E st \in polls :
    /\ polls' = polls \ {st}
    /\ lastConfig' = <<st.config>>
    /\ IF catalog # <<>> /\ Fills(st) THEN FillForm(st.config)
       ELSE fresh' = (fresh /\ lastConfig = <<st.config>>) /\ UNCHANGED <<inputs, loaded>>
    /\ running' = IF catalog = <<>> THEN running ELSE st.up
    /\ UNCHANGED <<daemon, catalog, edited, dirty, post, power, stirred, counts, history>>

\* The daemon is not reached: the page takes no engine to run.
PollFails ==
  /\ Upset
  /\ running' = FALSE
  /\ UNCHANGED <<daemon, catalog, inputs, edited, dirty, loaded, lastConfig, fresh, asked,
                 acts, history>>

-----------------------------------------------------------------------------
(* saveConfig and the buttons *)

\* POST /api/config with what the form holds now.
Posts(b) ==
  /\ lastConfig # Nothing /\ catalog # <<>>
  /\ post' = [post EXCEPT ![b] = [NoPost EXCEPT !.pc = "sent", !.body = <<Body(lastConfig[1])>>]]

PressSave ==
  /\ Act /\ ~running /\ post["save"].pc = "idle" /\ Posts("save")
  /\ UNCHANGED <<daemon, page, polls, power, stirred, upsets, history>>

\* The daemon refuses while an engine runs.
ConfigPosted(b) ==
  /\ post[b].pc = "sent"
  /\ post' = [post EXCEPT ![b].pc = "answered", ![b].ok = ~up]
  /\ config' = IF up THEN config ELSE post[b].body[1]
  /\ stirred' = (stirred \/ (b # "power" /\ ~up))
  /\ UNCHANGED <<up, page, polls, power, counts, history>>

BugAcknowledge(b) ==  \* a bug: the list is emptied whatever the answer
  /\ dirty' = FALSE /\ edited' = {}
  /\ unsaved' = IF post[b].ok THEN unsaved \cap late[b] ELSE unsaved
  /\ late' = [late EXCEPT ![b] = {}]
  /\ UNCHANGED <<catalog, inputs, loaded, running, lastConfig, fresh>>
\* The list of edits is emptied once the daemon has taken the form: also of
\* those made since the form was read.
Acknowledge(b) ==
  /\ dirty' = (dirty /\ ~post[b].ok)
  /\ edited' = IF post[b].ok THEN {} ELSE edited
  /\ unsaved' = IF post[b].ok THEN unsaved \cap late[b] ELSE unsaved
  /\ late' = [late EXCEPT ![b] = {}]
  /\ UNCHANGED <<catalog, inputs, loaded, running, lastConfig, fresh>>

SaveAnswered ==
  /\ post["save"].pc = "answered"
  /\ Acknowledge("save")
  /\ post' = [post EXCEPT !["save"] = NoPost]
  /\ UNCHANGED <<daemon, polls, power, stirred, counts>>

\* The power button: STOP, START, or a save first when edits are staged.
PressPower ==
  /\ Act /\ power = "idle"
  /\ \/ running /\ power' = "stop" /\ UNCHANGED <<post, stirred>>
     \/ ~running /\ ~dirty /\ power' = "start" /\ UNCHANGED <<post, stirred>>
     \/ ~running /\ dirty /\ Posts("power") /\ power' = "saving" /\ stirred' = FALSE
  /\ UNCHANGED <<daemon, page, polls, upsets, history>>

BugPowerSaved ==  \* a bug: START goes on although the save was refused
  /\ power = "saving" /\ post["power"].pc = "answered"
  /\ Acknowledge("power")
  /\ power' = "start" /\ post' = [post EXCEPT !["power"].pc = "taken"]
  /\ UNCHANGED <<daemon, polls, stirred, counts>>
\* START rides on a save that was taken.
PowerSaved ==
  /\ power = "saving" /\ post["power"].pc = "answered"
  /\ Acknowledge("power")
  /\ IF post["power"].ok
     THEN power' = "start" /\ post' = [post EXCEPT !["power"].pc = "taken"]
     ELSE power' = "idle" /\ post' = [post EXCEPT !["power"] = NoPost]
  /\ UNCHANGED <<daemon, polls, stirred, counts>>

\* The handler of the power button is through.
PowerDone ==
  /\ power' = "idle" /\ stirred' = FALSE /\ post' = [post EXCEPT !["power"] = NoPost]
  /\ late' = [late EXCEPT !["power"] = {}] /\ UNCHANGED unsaved

\* The daemon starts or stops the engine; the answer only sets the message.
PowerAnswered ==
  /\ power \in {"start", "stop"} /\ PowerDone
  /\ up' = (power = "start")
  /\ UNCHANGED <<config, page, polls, counts>>

\* A request of a button is lost: nothing of it happens, or only its answer.
RequestLost ==
  /\ Upset
  /\ \/ /\ post["save"].pc # "idle" /\ post' = [post EXCEPT !["save"] = NoPost]
        /\ late' = [late EXCEPT !["save"] = {}] /\ UNCHANGED <<power, stirred, unsaved>>
     \/ power # "idle" /\ PowerDone
  /\ UNCHANGED <<daemon, page, polls, acts>>

-----------------------------------------------------------------------------
(* Others *)

\* Another client, or the NMOS node, writes a configuration.
OtherWrites ==
  /\ ~up /\ Upset
  /\ config' \in Foreign \cup {[config EXCEPT !.rest = 1 - @]}
  /\ stirred' = TRUE
  /\ UNCHANGED <<up, page, polls, post, power, acts, history>>

\* Another client starts the engine, or it ends.
EngineFlips ==
  /\ Upset
  /\ up' = ~up
  /\ UNCHANGED <<config, page, asked, acts, history>>

PageStep ==
  \/ LoadCatalog \/ Toggle \/ MoveFilter \/ SetParam
  \/ Poll \/ PollAnswered \/ PollFails \/ PressSave \/ PressPower
Requests ==
  \/ \E b \in {"save", "power"} : ConfigPosted(b)
  \/ SaveAnswered \/ PowerSaved \/ PowerAnswered \/ RequestLost

DashNext == PageStep \/ Requests \/ OtherWrites \/ EngineFlips

-----------------------------------------------------------------------------
(* Properties *)

\* The panel means what the daemon holds: saving an untouched form changes
\* neither the chain the engine composes nor what the form does not show
\* (deriveChain and readForm against compose()).
PanelTrue ==
  fresh =>
    LET c == lastConfig[1] IN EngineChain(Body(c)) = EngineChain(c) /\ Body(c).rest = c.rest

\* A page opened after a save shows the rows as they were saved, the ones that
\* are off included.
Reload ==
  (catalog = Full /\ lastConfig # Nothing /\ ("chain" \in edited \/ fresh)) =>
    LET b == Body(lastConfig[1])
    IN  Rows(Full, Full, b) = order /\ ToSet(DeriveChain(Full, b)) = enabled

\* What the panel shows is what is saved, in both directions.
PanelRight == PanelTrue /\ Reload

\* The step leaves the input with key k as it is.
Untouched(k) ==
  CASE k = "chain" -> order' = order /\ enabled' = enabled
    [] k = "mode" -> form'.mode = form.mode
    [] OTHER -> form'.amt[k] = form.amt[k]

\* No answer, however late, touches an input in the list of edits, and an edit
\* leaves the list only when it is saved, or on the answer to a save that was
\* sent before it.  Even then it is not overwritten before the form is first
\* filled, or an engine runs and nothing is edited.
EditsStay ==
  [][acts' = acts => \A k \in unsaved :
       IF k \in edited
       THEN /\ Untouched(k)
            /\ \/ k \in edited' \/ k \notin unsaved'
               \/ \E b \in {"save", "power"} : post[b].ok /\ k \in late[b]
       ELSE Untouched(k) \/ ~loaded \/ (running' /\ ~dirty)]_dashVars

\* "unsaved edits: the poll must not clobber them" (the comment at dirty): it
\* does, after an edit made while a save was under way.
UnsavedStay == [][acts' = acts => \A k \in unsaved : Untouched(k)]_dashVars

\* START with staged edits runs them, unless someone else wrote since: it does
\* not go on when its save was refused.
StartRuns ==
  [][power = "start" /\ ~up /\ up' /\ post["power"].pc = "taken" /\ ~stirred
       => post["power"].body = <<config>>]_dashVars

\* Edits stay in the list until a save is answered, and are saved before START
\* runs them.
EditsHonoured == EditsStay /\ StartRuns

\* While an engine runs and nothing is edited, the form comes to show its
\* configuration and stays with it.
FormFollows == <>[](up /\ ~dirty) => <>[](fresh /\ lastConfig = <<config>>)
=============================================================================
