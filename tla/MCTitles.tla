------------------------------ MODULE MCTitles ------------------------------
(* Families of products that differ in one thing only: region, edition,      *)
(* platform, face value or duration; and names that hold a word of a table. *)
EXTENDS Titles

Prod(name, platform, region, face, edition) ==
    [name |-> name, platform |-> platform, region |-> region, face |-> face,
     edition |-> edition]

MCProducts ==
    {Prod(<<"cyberpunk", "2077">>, "steam", r, <<>>, e) :
        r \in {"GLOBAL", "INDIA", "TURKEY"}, e \in {"", "deluxe", "standard"}}
      \cup {Prod(<<"saints", "row">>, "steam", r, <<>>, "") : r \in {"INDIA", "TURKEY"}}
      \cup {Prod(<<"epic", "mickey">>, "steam", "GLOBAL", <<>>, ""),
            Prod(<<"gta", "v">>, "steam", "GLOBAL", <<>>, "")}
      \cup {Prod(<<"beat", "saber", "vr">>, p, "US", <<>>, "") : p \in {"steam", "xbox"}}
      \cup {Prod(<<"roblox", "card">>, "roblox", "HONG KONG", f, "") :
              f \in {<<"350", "hkd">>, <<"100", "hkd">>, <<"100", "usd">>}}
      \cup {Prod(<<"wallet", "card">>, "steam", "US", f, "") :
              f \in {<<"$", "100">>, <<"usd", "100">>, <<"100", "hkd">>}}
      \cup {Prod(<<"fifa", "23">>, "xbox", "GLOBAL", f, "") :
              f \in {<<"500", "points">>, <<"1050", "points">>}}
      \cup {Prod(n, "xbox", "INDIA", <<>>, "") :
              n \in {<<"game", "pass", "6", "months">>, <<"game", "pass", "12", "months">>}}

ASSUME PricesArePlain == PlainPrices
=============================================================================
