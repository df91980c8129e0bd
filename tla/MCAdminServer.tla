---------------------------- MODULE MCAdminServer ---------------------------
EXTENDS AdminServer, TLC

CONSTANTS m1, s1, s2, viewer, operator, Nobody

MCRoles == viewer :> "viewer" @@ operator :> "operator"

\* Secrets and contents are interchangeable: a machine starts without a secret or
\* with s1, and shows "idle"; users switch monitoring off and on.
MCInit ==
  /\ Init
  /\ content[m1] = "idle" /\ settings[m1].enabled /\ keyring[m1] # s2
  /\ bootstrap[m1] = s2 => keyring[m1] = s1

MCSpec == MCInit /\ [][Next]_vars /\ Fairness

MCIdLists == {<<>>, <<m1, m1>>}

=============================================================================
