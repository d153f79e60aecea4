----------------------------- MODULE MCRouting ------------------------------
EXTENDS Routing
SomeKeys == {<<1>>, <<2>>, <<1, 9>>, <<2, 1>>}

\* A family of sums that differ from seed to seed and depend on every character.
SumOf(s, str) ==
  LET sum[i \in 0..Len(str)] == IF i = 0 THEN s ELSE (sum[i - 1] * 7 + str[i] + s) % 101
  IN  sum[Len(str)]
=============================================================================
