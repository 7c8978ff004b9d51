------------------------ MODULE MCVerificationCoordinator ------------------------
EXTENDS VerificationCoordinator, TLC

CONSTANTS d1, f1, p1, p2

OneDomain == {d1}
OneFetch == {f1}
TwoClients == {p1, p2}
TwoTokens == 1..2

ClientSymmetry == Permutations(TwoClients)

=============================================================================
