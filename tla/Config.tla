------------------------------ MODULE Config ------------------------------
(***************************************************************************)
(* From the environment to a serving process (internal/config).  Load      *)
(* reads each variable through a helper that falls back to a default,      *)
(* Validate judges the result, and NewPool is the first to use it.         *)
(* Variables that no condition reads are left out.                         *)
(***************************************************************************)
EXTENDS Integers

CONSTANTS
  Unset, Empty, Malformed,      \* states of a variable besides a value
  Environments,                 \* the environments of this instance
  DefaultBody, DefaultUpload,   \* 6 MiB and 5 MiB
  DefaultConns,                 \* 10
  MaxInt32

ASSUME DefaultAssumption ==
  /\ {DefaultBody, DefaultUpload, DefaultConns, MaxInt32} \subseteq Nat
  /\ DefaultUpload < DefaultBody
  /\ DefaultConns \in 1 .. MaxInt32

\* a variable that is unset or empty does not say "production"
ASSUME StateAssumption == "production" \notin {Unset, Empty}

VARIABLES
  environ,  \* the environment
  config,   \* what Load has made of it
  stage     \* what main does next, or "serving", or "refused" at start

vars == <<environ, config, stage>>

Init ==
  /\ environ \in Environments
  /\ config = <<>>
  /\ stage = "load"

-----------------------------------------------------------------------------
(* The helpers of Load.                                                    *)

\* an empty value counts as none
Env(value, default) == IF value \in {Unset, Empty} THEN default ELSE value

\* envInt64, envBool, envDuration: so does one that cannot be parsed
EnvOrDefault(value, default) ==
  IF value \in {Unset, Empty, Malformed} THEN default ELSE value

\* envStrings: "blank" is a list of separators only
EnvStrings(value) ==
  CASE value \in {Unset, Empty} -> {"image/png"}
    [] value = "blank" -> {}
    [] OTHER -> {value}

\* int32(n)
Narrow(n) == ((n + MaxInt32 + 1) % (2 * (MaxInt32 + 1))) - (MaxInt32 + 1)

\* a price that cannot be parsed becomes the default, like other numbers
BugPriceError == FALSE

\* envDecimal reports an error instead of falling back
PriceError == Env(environ.price, 1) = Malformed

Loaded ==
  [appEnv    |-> Env(environ.appEnv, "local"),
   sslMode   |-> Env(environ.sslMode, "disable"),
   cors      |-> Env(environ.cors, "*"),
   password  |-> Env(environ.password, "wst"),
   accessKey |-> Env(environ.accessKey, "minioadmin"),
   secretKey |-> Env(environ.secretKey, "minioadmin"),
   body      |-> EnvOrDefault(environ.body, DefaultBody),
   upload    |-> EnvOrDefault(environ.upload, DefaultUpload),
   types     |-> EnvStrings(environ.types),
   conns     |-> Narrow(EnvOrDefault(environ.conns, DefaultConns)),
   price     |-> EnvOrDefault(environ.price, 1)]

Load ==
  /\ stage = "load"
  /\ \/ PriceError /\ stage' = "refused" /\ UNCHANGED config
     \/ ~PriceError /\ stage' = "validate" /\ config' = Loaded
  /\ UNCHANGED environ

\* allows an upload as large as the body
BugValid(c) ==
  /\ c.upload <= c.body
  /\ c.types # {}
  /\ c.appEnv = "production" => c.sslMode # "disable" /\ c.cors # "*"

Valid(c) ==
  /\ c.upload < c.body
  /\ c.types # {}
  /\ c.appEnv = "production" =>
       /\ c.sslMode # "disable"
       /\ c.cors # "*"
       /\ Empty \notin {c.password, c.accessKey, c.secretKey}

Validate ==
  /\ stage = "validate"
  /\ stage' = IF Valid(config) THEN "pool" ELSE "refused"
  /\ UNCHANGED <<environ, config>>

\* pgxpool refuses a maximum below one (external).
NewPool ==
  /\ stage = "pool"
  /\ stage' = IF config.conns >= 1 THEN "serving" ELSE "refused"
  /\ UNCHANGED <<environ, config>>

Ended == stage \in {"serving", "refused"} /\ UNCHANGED vars

Next == Load \/ Validate \/ NewPool \/ Ended

Spec == Init /\ [][Next]_vars

-----------------------------------------------------------------------------
\* A process that serves has room for the largest upload in a request body and
\* accepts some type of file; in production its environment itself names a TLS
\* mode and the allowed origins - the defaults are among the refused values.
ServesOnlyWhatIsAllowed ==
  stage = "serving" =>
    /\ config.upload < config.body
    /\ config.types # {}
    /\ environ.appEnv = "production" =>
         /\ environ.sslMode \notin {Unset, Empty, "disable"}
         /\ environ.cors \notin {Unset, Empty, "*"}

\* Amounts are never billed at a default price because a price was mistyped,
\* although every other malformed number silently becomes its default.
PricesAreDeliberate ==
  stage = "serving" => environ.price \in {Unset, Empty, config.price}
=============================================================================
