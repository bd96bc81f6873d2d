---------------------------- MODULE ConfigProofs ----------------------------
(***************************************************************************)
(* Whatever the environment: a process that serves has passed Validate     *)
(* with the configuration that Load has made of it.                        *)
(***************************************************************************)
EXTENDS Config, TLAPS

\* Nothing changes between Load and the first request.
IInv ==
  /\ stage \in {"validate", "pool", "serving"} => config = Loaded /\ ~PriceError
  /\ stage \in {"pool", "serving"} => Valid(config)

LEMMA StepKeepsInvariant == ASSUME IInv, [Next]_vars PROVE IInv'
<1>1. CASE Load
  <2>1. environ' = environ /\ (stage' = "refused" \/ stage' = "validate")
    BY <1>1 DEF Load
  <2>2. Loaded' = Loaded /\ PriceError' = PriceError
    BY <2>1 DEF Loaded, PriceError
  <2>3. stage' = "validate" => config' = Loaded /\ ~PriceError
    BY <1>1 DEF Load
  <2> QED BY <2>1, <2>2, <2>3 DEF IInv
<1>2. CASE ~Load
  <2>1. environ' = environ /\ config' = config
    BY <1>2 DEF Next, Validate, NewPool, Ended, vars
  <2>2. Loaded' = Loaded /\ PriceError' = PriceError /\ Valid(config)' = Valid(config)
    BY <2>1 DEF Loaded, PriceError, Valid
  <2>3. /\ stage' \in {"validate", "pool", "serving"} =>
             stage \in {"validate", "pool", "serving"}
        /\ stage' \in {"pool", "serving"} =>
             stage \in {"pool", "serving"} \/ (stage = "validate" /\ Valid(config))
    BY <1>2 DEF Next, Validate, NewPool, Ended, vars
  <2> QED BY <2>1, <2>2, <2>3 DEF IInv
<1> QED BY <1>1, <1>2

LEMMA Invariance == Spec => []IInv
<1>1. Init => IInv
  BY DEF Init, IInv
<1> QED BY <1>1, StepKeepsInvariant, PTL DEF Spec

\* The defaults of sslMode and cors are what Validate refuses in production, so
\* the environment has named others.
THEOREM OnlyTheAllowedServe == Spec => []ServesOnlyWhatIsAllowed
<1>1. IInv => ServesOnlyWhatIsAllowed
  <2> SUFFICES ASSUME IInv, stage = "serving" PROVE ServesOnlyWhatIsAllowed
    BY DEF ServesOnlyWhatIsAllowed
  <2>1. Valid(config) /\ config = Loaded
    BY DEF IInv
  <2>2. /\ config.appEnv = Env(environ.appEnv, "local")
        /\ config.sslMode = Env(environ.sslMode, "disable")
        /\ config.cors = Env(environ.cors, "*")
    BY <2>1 DEF Loaded
  <2> QED BY <2>1, <2>2, StateAssumption DEF Valid, Env, ServesOnlyWhatIsAllowed
<1> QED BY <1>1, Invariance, PTL

\* A mistyped price stops Load, the one number whose default nobody would notice.
THEOREM PricesAreMeant == Spec => []PricesAreDeliberate
<1>1. IInv => PricesAreDeliberate
  <2> SUFFICES ASSUME IInv, stage = "serving" PROVE environ.price \in {Unset, Empty, config.price}
    BY DEF PricesAreDeliberate
  <2>1. config = Loaded /\ ~PriceError
    BY DEF IInv
  <2>2. config.price = EnvOrDefault(environ.price, 1)
    BY <2>1 DEF Loaded
  <2> QED BY <2>1, <2>2 DEF PriceError, Env, EnvOrDefault
<1> QED BY <1>1, Invariance, PTL
=============================================================================
