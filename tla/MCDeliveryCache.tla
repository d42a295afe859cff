--------------------------- MODULE MCDeliveryCache ---------------------------
(***************************************************************************)
(* Two instances of DeliveryCache in one run: the constant-in-time         *)
(* variable traffic says whether the manifests of the jurisdictions or the *)
(* cards of the package are published and asked for.  Their keys meet      *)
(* nowhere in the cache but in a quarantine, which drops every manifest.   *)
(***************************************************************************)
EXTENDS DeliveryCache

VARIABLE traffic

Used == IF traffic = "manifests" THEN Jurisdictions ELSE Cards

(* Only the used keys; one caller downloads the cards. *)
Confined ==
    /\ \A k \in Keys \ Used : top'[k] = top[k]
    /\ \A c \in Callers : callers'[c].pc # "idle" => callers'[c].key \in Used
    /\ traffic = "cards" => /\ \A i \in 2..MaxCalls : calls'[i] = NoCall
                            /\ \A d \in Callers \ {CHOOSE c \in Callers : TRUE} : callers'[d] = NoCaller

MCInit == Init /\ traffic \in {"manifests", "cards"}
MCNext == Next /\ Confined /\ UNCHANGED traffic
MCSpec == MCInit /\ [][MCNext]_<<vars, traffic>> /\ Fairness
==============================================================================
