------------------------------ MODULE Registry ------------------------------
(***************************************************************************)
(* detail/push_service.cpp and push_provider.cpp: providers register under *)
(* their key in the constructor of their base class and unregister in its  *)
(* destructor.  The registry holds plain pointers.                         *)
(***************************************************************************)
EXTENDS Naturals

CONSTANTS Provider,  \* objects derived from provider: apns, gcm
          Key,       \* provider keys
          KeyOf,     \* the key of each
          Nobody     \* no provider

ASSUME KeyAssumption == KeyOf \in [Provider -> Key] /\ Nobody \notin Provider

VARIABLE providers   \* providers_

RegistryInit == providers = [k \in Key |-> Nobody]

\* add_provider, when it does not throw.  Slip: the check is missing.
AddOver(p) == providers' = [providers EXCEPT ![KeyOf[p]] = p]
AddProvider(p) ==
    /\ providers[KeyOf[p]] = Nobody
    /\ providers' = [providers EXCEPT ![KeyOf[p]] = p]

\* add_provider throws.
AlreadyRegistered(p) == providers[KeyOf[p]] # Nobody

\* remove_provider: by key, whoever is registered under it.
RemoveProvider(p) == providers' = [providers EXCEPT ![KeyOf[p]] = Nobody]
=============================================================================
