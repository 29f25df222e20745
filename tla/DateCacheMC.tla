------------------------------ MODULE DateCacheMC ------------------------------
(* Small instances of DateCache: a format of the default's length, a shorter *)
(* and a longer one.                                                         *)
EXTENDS DateCache

YmdHis == <<"Y", "m", "d">>
Ymd    == <<"Y", "m">>
YmdT   == <<"Y", "m", "d", "T">>
MCFormats == {YmdHis, Ymd, YmdT}
=============================================================================
