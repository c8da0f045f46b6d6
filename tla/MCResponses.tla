----------------------------- MODULE MCResponses -----------------------------
EXTENDS Responses

CONSTANTS t1, t2, host, inner, basket, session, private

NoRules == [NoReqExt |-> {}, NoReqPathSuffix |-> {}, NoReqPathContains |-> {}, NoReqPathPrefix |-> {},
            NoReqCookieContains |-> {<<session>>}, RespHeadersBlackList |-> {<<private>>},
            status |-> 200 :> 10 @@ 301 :> Bad, type |-> <<>>]
MCFiles == {[global |-> NoRules,
             domain |-> host :> [NoRules EXCEPT !.NoReqPathContains = {<<basket>>},
                                           !.NoReqCookieContains = {}]]}

Header(unit, specs) == [unit |-> unit, specs |-> specs]
Ranges == {Header("bytes", specs) : specs \in
  { << <<1, 2>> >>, << <<1, Blank>> >>, << <<0, Blank>>, <<2, NoNumber>> >>,
    << <<0, 0>> >>, << <<4, 9>> >>, << <<3, 9>> >> }}

Get    == [method |-> "GET", host |-> host, path |-> <<inner>>, device |-> 0, cookies |-> {}]
MCAsks == t1 :> ({Get} \X Ranges
                 \cup {[Get EXCEPT !.path = <<inner, basket>>], [Get EXCEPT !.method = "HEAD"]} \X {NoRange})
       @@ t2 :> {[Get EXCEPT !.device = 1], [Get EXCEPT !.cookies = {<<session>>}]} \X {NoRange}
MCReplies == {[status |-> 200, size |-> 3, header |-> h, type |-> <<>>] : h \in {<<>>, <<private>>}}
             \cup {[status |-> 301, size |-> 1, header |-> <<private>>, type |-> <<>>]}
=============================================================================
