----------------------------- MODULE MCDashboard -----------------------------
(***************************************************************************)
(* An instance of Dashboard: days of 4 hours of 24/4 each, an offset of one *)
(* from UTC, day 4 short by one and day 7 long by one.                      *)
(***************************************************************************)
EXTENDS Dashboard

MCMidnight == <<3, 7, 11, 15, 18, 22, 26, 31, 35>>
MCClock == {14, 17, 18, 22, 30}
MCLn == <<0, 693, 1099, 1386, 1609, 1792, 1946, 2079, 2197, 2303, 2398, 2485,
          2565, 2639, 2708, 2773, 2833, 2890, 2944, 2996, 3045, 3091, 3135, 3178,
          3219, 3258, 3296, 3332, 3367, 3401, 3434, 3466, 3497, 3526, 3555, 3584,
          3611, 3638, 3664, 3689, 3714, 3738, 3761, 3784, 3807, 3829, 3850, 3871,
          3892, 3912, 3932, 3951, 3970, 3989>>
Row(at, key, user, spend, tokens) ==
  [at |-> at, key |-> key, user |-> user, spend |-> spend, tokens |-> tokens]
Want(of, key, llm) == [of |-> of, key |-> key, llm |-> llm]
MCWanted == {Want("all", 0, TRUE), Want("apps", 2, TRUE)}
MCServed == {<<{<<1, 2>>}, {1, 2}>>, <<{<<1, 2>>}, {2}>>}
MCLog == <<Row(18, "k2", 2, 4, 2), Row(15, "k3", Null, 20, 1), Row(13, "k1", 1, 0, 3),
           Row(11, "k2", 1, 1, 1), Row(7, "k4", 1, 1, 0)>>
KeyEntry(at, token, alias) == [at |-> at, token |-> token, alias |-> alias]
MCKeys == <<KeyEntry(15, "k3", 9), KeyEntry(0, "k2", 2), KeyEntry(0, "k4", 2), KeyEntry(0, "k1", 1)>>
MCPageSize == [rows |-> 2, keys |-> 1]
==============================================================================
