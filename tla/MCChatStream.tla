---------------------------- MODULE MCChatStream ----------------------------
(* Instances of ChatStream for TLC.                                        *)
EXTENDS ChatStream

CONSTANTS s1, p1

Config(n, s, r) == [native |-> n, serving |-> s, real |-> r]

NativeModel == Config(TRUE, TRUE, TRUE)
NativeStub == Config(TRUE, TRUE, FALSE)
BestEffortServing == Config(FALSE, TRUE, TRUE)
BestEffort == Config(FALSE, FALSE, TRUE)
Stub == Config(FALSE, FALSE, FALSE)

AllModels == {NativeModel, NativeStub, BestEffortServing, BestEffort, Stub}

OnlyBestEffortServing == {BestEffortServing}

OnlyNative == {NativeModel}

OneStream == {s1}
OnePlain == {p1}
NoPlain == {}

=============================================================================
