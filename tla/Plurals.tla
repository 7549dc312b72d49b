------------------------------ MODULE Plurals ------------------------------
(***************************************************************************)
(* The plural categories of the languages (translate/lang/data.py) and     *)
(* what a store makes of them (translate/storage/base.py).                 *)
(***************************************************************************)
EXTENDS Integers, Sequences, FiniteSets, TLC

LOCAL INSTANCE Functions   \* Range, IsInjective

cldr_plural_categories == <<"zero", "one", "two", "few", "many", "other">>

Tagged(tags, locales) == [locale \in locales |-> tags]

PluralTags ==
  Tagged(<<"other">>,
    {"adp", "bam", "bm", "bo", "bod", "bur", "chi", "chinese", "chs", "cht",
     "cmn", "cn", "dz", "dzo", "hnj", "ibo", "id", "ig", "ii", "iii", "in",
     "ind", "ja", "jav", "jbo", "jp", "jpn", "jv", "jw", "kde", "kea", "khm",
     "km", "ko", "kor", "lao", "lkt", "lo", "may", "ms", "msa", "my", "mya",
     "nqo", "osa", "sag", "sah", "schinese", "ses", "sg", "su", "sun",
     "tchinese", "th", "tha", "tib", "to", "ton", "tpi", "und", "vi", "vie",
     "vn", "wo", "wol", "yo", "yor", "yue", "zh", "zhcn", "zho", "zhtw", "zsm"})
  @@
  Tagged(<<"one", "other">>,
    {"af", "afr", "ak", "aka", "alb", "als", "am", "amh", "an", "arg", "arm",
     "as", "asa", "asm", "ast", "az", "aze", "azj", "bal", "baq", "base", "bcc",
     "bd", "bem", "ben", "bez", "bg", "bgr", "bh", "bho", "bih", "bn", "brx",
     "bul", "ce", "ceb", "cgg", "che", "chr", "ckb", "cld", "csw", "da", "dan",
     "de", "des", "deu", "dgo", "div", "dk", "doi", "drh", "drw", "dut",
     "dutch_be", "dv", "ee", "ekk", "el", "ell", "en", "ena", "eng",
     "english_uk", "enp", "enu", "eo", "epo", "es_eu", "est", "et", "eu", "eus",
     "ewe", "fa", "fao", "fas", "fat", "ff", "fi", "fil", "fin", "flemish",
     "fo", "fry", "fuc", "ful", "fur", "fy", "gaz", "geo", "ger", "gl", "glg",
     "gom", "gr", "gre", "gsw", "gu", "guj", "guw", "ha", "hau", "haw", "hi",
     "hin", "hu", "hun", "hy", "hye", "ia", "ice", "ido", "ie", "ile", "ina",
     "io", "is", "isl", "jgo", "ji", "jmc", "ka", "kab", "kaj", "kal", "kan",
     "kas", "kat", "kaz", "kcg", "khk", "kir", "kk", "kk@latin", "kkj", "kl",
     "kmr", "kn", "knn", "kok", "kok-Latn", "ks", "ksb", "ku", "kur", "ky",
     "kz", "lah", "lb", "lg", "lij", "lin", "lk", "ln", "ltz", "lug", "mac",
     "mal", "mar", "mas", "mg", "mgo", "mk", "mkd", "ml", "mlg", "mn", "mon",
     "mr", "nah", "nb", "nbl", "nd", "nde", "ne", "nep", "nl", "nlb", "nld",
     "nn", "nnh", "nno", "no", "nob", "nor", "norwegian", "np", "npi", "nr",
     "nso", "ny", "nya", "nyn", "om", "or", "ori", "orm", "ory", "os", "oss",
     "pa", "pan", "pap", "pbu", "pcm", "per", "pes", "pk", "plt", "pnb", "prp",
     "prs", "ps", "pu", "pus", "rm", "rof", "roh", "rwk", "saq", "sc", "sd",
     "sdh", "seh", "si", "sin", "sn", "sna", "snd", "so", "som", "sot",
     "source", "sq", "sqi", "src", "srd", "ss", "ssw", "ssy", "st", "sv", "sve",
     "sw", "swa", "swc", "swe", "swh", "syr", "ta", "tam", "te", "tel", "teo",
     "tgl", "ti", "tig", "tir", "tk", "tl", "tn", "tnf", "tr", "trk", "ts",
     "tsn", "tso", "tuk", "tur", "tw", "twi", "tzm", "ug", "uig", "ur", "urd",
     "us", "uz", "uz@cyrillic", "uz@latin", "uz@latn", "uzb", "uzn", "ve",
     "ven", "vo", "vol", "vun", "wa", "wae", "wln", "xh", "xho", "xog", "ydd",
     "yi", "yid", "zu", "zul"})
  @@
  Tagged(<<"zero", "one", "other">>,
    {"blo", "chv", "cv", "ksh", "lag", "lav", "lv", "lvs", "prg"})
  @@
  Tagged(<<"one", "two", "other">>,
    {"he", "heb", "ike", "iku", "iu", "iw", "naq", "sat", "se", "sma", "sme",
     "smi", "smj", "smn", "sms"})
  @@
  Tagged(<<"one", "few", "many">>,
    {"be", "be@latin", "bel", "by", "pl", "plk", "pol", "ru", "rus", "ua", "uk",
     "ukr", "xbelorussian"})
  @@
  Tagged(<<"one", "few", "other">>,
    {"bos", "bs", "ces", "cnr", "cs", "csy", "cz", "cze", "hbs", "hr", "hrv",
     "lit", "lt", "me", "mo", "mol", "ro", "ron", "rs", "rum", "scc", "scr",
     "serbo_croatian", "sh", "shi", "sk", "sky", "slk", "slo", "sr",
     "sr@cyrillic", "sr@latin", "srb", "srl", "srp", "svk"})
  @@
  Tagged(<<"one", "many", "other">>,
    {"bp", "braz_por", "ca", "cat", "es", "esp", "fr", "fra", "frb", "fre",
     "it", "ita", "its", "lld", "mspanish", "por", "portuguese_br",
     "portuguese_portugal", "pt", "pt_PT", "ptb", "ptg", "scn", "spa", "vec"})
  @@
  Tagged(<<"one", "two", "few", "other">>,
    {"dsb", "gae", "gd", "gla", "glv", "gv", "hsb", "sgs", "sl", "slv"})
  @@
  Tagged(<<"one", "two", "few", "many", "other">>,
    {"br", "bre", "ga", "gle", "mlt", "mt"})
  @@
  Tagged(<<"zero", "one", "two", "few", "many", "other">>,
    {"ar", "ara", "arb", "ars", "ary", "cor", "cy", "cym", "eg", "kw", "wel"})

(* CLDR plurals with additional decimal tags                               *)
DecimalExtraTags ==
  Tagged(<<"other">>, {"be", "pl", "ru", "uk"})
  @@ Tagged(<<"many">>, {"cs", "gv", "lt", "sgs", "sk"})

(* get_cldr_plural_tags; a count of zero is an unknown one. *)
GetCldrPluralTags(locale, count) ==
  IF locale \in DOMAIN PluralTags THEN PluralTags[locale]
  ELSE IF count = 1 THEN <<"other">> ELSE PluralTags["en"]

(* sync_plural_count: blank forms are added, or forms are cut off.         *)
SyncPluralCount(strings, tags) ==
  [k \in DOMAIN tags |-> IF k <= Len(strings) THEN strings[k] ELSE ""]

(* The readers that take the forms in the order of the categories, and the *)
(* writers that take them in the order of the language's tags, agree on    *)
(* that order, and the categories of decimals are new ones.                *)
IndexOf(tag) == CHOOSE k \in DOMAIN cldr_plural_categories : cldr_plural_categories[k] = tag

ASSUME TagsAreInOrder ==
  /\ \A tags \in Range(PluralTags) : \A i, j \in DOMAIN tags :
       i < j => IndexOf(tags[i]) < IndexOf(tags[j])
  /\ DOMAIN DecimalExtraTags \subseteq DOMAIN PluralTags
=============================================================================
