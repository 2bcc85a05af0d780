--------------------------- MODULE MCDeviceServices ---------------------------
EXTENDS DeviceServices, TLC

\* Requests, channels and tasks are interchangeable.
Symmetry == Permutations(Req) \cup Permutations(Channel) \cup Permutations(Task)

\* Talks and the subscription meet only in the registration, so that one of
\* them at a time is enough for what is said of each.  Two changes let a talk
\* meet its device's first REGISTER and one more change of any kind; the
\* subscription takes a third, to lose the device and find it again.
TalkChanges == 2
TalkRests == \A r \in Req : req[r].at = "idle"
CatalogRests == calls = 0 /\ \A t \in Task : task[t].at \in {"idle", "first"}
OneService == TalkRests \/ (CatalogRests /\ changes <= TalkChanges)
=============================================================================
