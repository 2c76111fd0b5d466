------------------------------ MODULE Options -------------------------------
(***************************************************************************)
(* The options of the daemon (pkg/option/option.go, daemon/daemon.go) and  *)
(* the command "config" that changes them (daemon/main.go): it parses its  *)
(* arguments one by one and sends after each of them a request with all it *)
(* has parsed so far.  Any HTTP client may send a request as well, with    *)
(* whatever keys.  A key is the name of an option in some spelling; that   *)
(* of the library is canonical.                                            *)
(***************************************************************************)
EXTENDS Naturals, Sequences

CONSTANTS Keys,      \* the spellings that are used
          NameOf,    \* the option of the library each one finds, or None
          Immutable, \* the options that are read-only
          Commands,  \* runs of the command
          ArgsOf,    \* their arguments: a key, and TRUE, FALSE or None
          Requests,  \* what other clients may send
          MaxRequests, \* bound: how often they do
          None

\* The spelling of the library finds itself.
ASSUME OptionAssumption ==
  /\ NameOf \in [Keys -> Keys \cup {None}] /\ Immutable \subseteq Keys
  /\ \A key \in Keys : NameOf[key] # None => NameOf[NameOf[key]] = NameOf[key]
  /\ ArgsOf \in [Commands -> Seq([key : Keys, value : BOOLEAN \cup {None}])]
  /\ \A n \in Requests : DOMAIN n \subseteq Keys /\ n \in [DOMAIN n -> BOOLEAN]
  /\ MaxRequests \in Nat

VARIABLES opts,     \* the map of the daemon
          cli,      \* the commands: arguments parsed, and the options they gave
          requests, \* requests of others so far
          boots     \* restarts of the daemon (history)

optVars == <<opts, cli, requests, boots>>

NoOptions == [k \in {} |-> FALSE]

OptInit ==
  /\ opts = NoOptions /\ requests = 0 /\ boots = 0
  /\ cli = [c \in Commands |-> [pc |-> "parse", parsed |-> 0, dOpts |-> NoOptions]]

-----------------------------------------------------------------------------
IsEnabled(o, key) == key \in DOMAIN o /\ o[key]

\* Lookup does not look at the case; Validate refuses what it does not find and
\* what is read-only.
ValidKey(key) == NameOf[key] # None /\ NameOf[key] \notin Immutable
Validate(n) == \A key \in DOMAIN n : ValidKey(key)

\* Mutant of Apply: the map is replaced by that of the request.
ApplyOnly(o, n) == n

\* Only what changes is written, with the key as it was sent: an option that was
\* never set is not set to FALSE.
Apply(o, n) ==
  LET changed == {k \in DOMAIN n : n[k] # IsEnabled(o, k)}
  IN [k \in changed \cup DOMAIN o |-> IF k \in changed THEN n[k] ELSE o[k]]

\* ParseOption: the name in its canonical spelling, or an error.
Parses(arg) == arg.value # None /\ ValidKey(arg.key)

\* Mutant of Update: keys are validated as they are applied.
UpdatePartly(n) ==
  opts' = Apply(opts, [k \in {k \in DOMAIN n : ValidKey(k)} |-> n[k]])

\* Update of the daemon, under OptsMU.
Update(n) == opts' = IF Validate(n) THEN Apply(opts, n) ELSE opts

-----------------------------------------------------------------------------
\* An entry of the command's map.
With(o, name, value) ==
  [k \in DOMAIN o \cup {name} |-> IF k = name THEN value ELSE o[k]]

\* The command ends at the first argument that it cannot parse.
ParseArg(c) ==
  LET i == cli[c].parsed + 1  arg == ArgsOf[c][i]
  IN /\ cli[c].pc = "parse" /\ i <= Len(ArgsOf[c])
     /\ cli' = [cli EXCEPT ![c] =
          IF Parses(arg)
          THEN [pc |-> "send", parsed |-> i,
                dOpts |-> With(@.dOpts, NameOf[arg.key], arg.value)]
          ELSE [@ EXCEPT !.pc = "failed"]]
     /\ UNCHANGED <<opts, requests, boots>>

\* The request and its reply; a reply that is lost ends the command.
SendOpts(c) ==
  /\ cli[c].pc = "send" /\ Update(cli[c].dOpts)
  /\ \E pc \in {IF cli[c].parsed = Len(ArgsOf[c]) THEN "done" ELSE "parse", "failed"} :
       cli' = [cli EXCEPT ![c].pc = pc]
  /\ UNCHANGED <<requests, boots>>

\* The request does not reach the daemon.
SendFails(c) ==
  /\ cli[c].pc = "send" /\ cli' = [cli EXCEPT ![c].pc = "failed"]
  /\ UNCHANGED <<opts, requests, boots>>

OtherRequest ==
  /\ requests < MaxRequests /\ requests' = requests + 1
  /\ \E n \in Requests : Update(n)
  /\ UNCHANGED <<cli, boots>>

\* Options are not kept anywhere; the command line sets others before any request.
RestartDaemon ==
  /\ boots = 0 /\ boots' = 1 /\ opts' = NoOptions /\ UNCHANGED <<cli, requests>>

OptNext ==
  \/ \E c \in Commands : ParseArg(c) \/ SendOpts(c) \/ SendFails(c)
  \/ OtherRequest \/ RestartDaemon

-----------------------------------------------------------------------------
OptTypeOK ==
  /\ DOMAIN opts \subseteq Keys /\ \A k \in DOMAIN opts : opts[k] \in BOOLEAN
  /\ \A c \in Commands :
       /\ cli[c].pc \in {"parse", "send", "done", "failed"}
       /\ cli[c].parsed \in 0 .. Len(ArgsOf[c])
       /\ DOMAIN cli[c].dOpts \subseteq {NameOf[k] : k \in Keys} \ {None}
  /\ requests \in 0 .. MaxRequests /\ boots \in 0 .. 1

\* The value that the last of some arguments for an option gives it.
Given(args, name) ==
  LET last == CHOOSE i \in DOMAIN args :
                /\ NameOf[args[i].key] = name
                /\ \A j \in i + 1 .. Len(args) : NameOf[args[j].key] # name
  IN args[last].value
Names(args) == {NameOf[args[i].key] : i \in DOMAIN args}

\* The options a command names and nobody else does.
Own(c) == Names(ArgsOf[c]) \ ((UNION {Names(ArgsOf[d]) : d \in Commands \ {c}})
                              \cup (UNION {DOMAIN n : n \in Requests}))

\* A command that has ended well, with no restart of the daemon, has set each of its
\* options to the last value it gave, whatever others asked for in between; only for
\* an option that others name too does the last request decide (main.go:190-209).
CommandTakesEffect ==
  \A c \in Commands : cli[c].pc = "done" /\ boots = 0 =>
    \A name \in Own(c) : IsEnabled(opts, name) = Given(ArgsOf[c], name)

\* What the commands send: all that their first arguments give.
FirstArgs(c, n) == SubSeq(ArgsOf[c], 1, n)
GivenBy(args) == [name \in Names(args) |-> Given(args, name)]
Sent ==
  UNION {{GivenBy(FirstArgs(c, n)) :
            n \in {n \in DOMAIN ArgsOf[c] : \A i \in 1 .. n : Parses(ArgsOf[c][i])}} :
           c \in Commands}

\* The options keep what Settings promises, though Apply writes only differences and
\* a request may name options that are not there or are read-only (option.go:194-230,
\* daemon.go:74-88).
Promise == INSTANCE Settings WITH
  Permitted <- {n \in Requests : Validate(n)} \cup Sent,
  enabled <- [k \in Keys |-> IsEnabled(opts, k)]
ChangesAreWhole == Promise!Spec

=============================================================================
