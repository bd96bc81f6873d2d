------------------------------ MODULE MCConfig ------------------------------
(* Instances of Config for TLC. *)
EXTENDS Config

\* every combination of the values a condition tells apart; a size of 5 equals
\* the default upload limit, a pool of 16 does not fit into four bits
AllEnvironments ==
  [appEnv: {Unset, "production"},
   sslMode: {Unset, Empty, "disable", "require"},
   cors: {Unset, Empty, "*", "https"},
   password: {Empty, "secret"},
   accessKey: {Unset},
   secretKey: {Unset, "secret"},
   body: {Empty, 5, 7},
   upload: {Unset, Malformed, 7},
   types: {Unset, "blank", "application/pdf"},
   conns: {Malformed, 0, 3, 16},
   price: {Unset, Malformed, 2}]
=============================================================================
