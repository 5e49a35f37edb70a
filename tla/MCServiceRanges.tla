--------------------------- MODULE MCServiceRanges ---------------------------
(***************************************************************************)
(* Addresses of three bits in two families, one prefix inside another, one *)
(* listed by two services and by two providers, host bits behind a length. *)
(***************************************************************************)
EXTENDS ServiceRanges

text(parses, fam, bits, len) == [parses |-> parses, fam |-> fam, bits |-> bits, len |-> len]
file(state, provider, services) ==
  [state |-> state, provider |-> provider, services |-> services]

MCBits == [f \in {"v4", "v6"} |-> IF f = "v4" THEN 2 ELSE 3]

Wide   == text(TRUE, "v4", <<1, 0>>, 1)
Host   == text(TRUE, "v4", <<1, 1>>, 2)
Noisy  == text(TRUE, "v4", <<1, 1>>, 1)       \* Wide, with a bit behind it
All6   == text(TRUE, "v6", <<0, 1, 0>>, 0)
Half6  == text(TRUE, "v6", <<0, 1, 0>>, 2)
Broken == text(FALSE, "v4", <<0, 0>>, 2)

ec2(texts) == [s \in {"EC2"} |-> texts]
two(ec2_texts, s3_texts) == [s \in {"EC2", "S3"} |-> IF s = "EC2" THEN ec2_texts ELSE s3_texts]

MCFiles ==
  { file("missing", "", <<>>), file("unreadable", "", <<>>), file("json", "other", <<>>),
    file("json", "aws", <<>>),
    file("json", "aws", two(<<Wide, Half6>>, <<Broken, Noisy, Host>>)),
    file("json", "azure", two(<<Host, Host>>, <<Host>>)),
    file("json", "gcp", two(<<All6>>, <<Noisy, Half6>>)) }
=============================================================================
